---- MODULE Spec2Model ----
(***************************************************************************)
(* Model of src/lambda.py: the three Lambda handlers of the Scones         *)
(* Unlimited workflow (serializeImageData, the classifier, the threshold   *)
(* filter), the S3 object store and the scratch file /tmp/image.png they   *)
(* use, and the chain serialize -> classify -> filter.                     *)
(*                                                                         *)
(* Python values are tagged records [type, val]:                           *)
(*   str   : val is the sequence of its characters (1-character strings)   *)
(*   bytes : val is the sequence of its ASCII characters                   *)
(*   list  : val is the sequence of its elements                           *)
(*   null  : None                                                          *)
(*   dict  : val is the sequence of its [key, value] items, in insertion   *)
(*           order, keys being character sequences                         *)
(* Stored objects and the scratch file are byte sequences (0..255).        *)
(***************************************************************************)
EXTENDS Integers, Sequences, FiniteSets, TLC

VARIABLES
    store,      \* S3: [Buckets \X Keys -> object bytes or NoObject]
    tmpFile,    \* content of /tmp/image.png in the execution environment, or NoFile
    pc,         \* position of the invocation / of the workflow
    request,    \* the event as the caller sent it
    event,      \* the event object after the handler ran on it
    outcome     \* what the last handler did: a returned response or a raised exception

vars == <<store, tmpFile, pc, request, event, outcome>>

----------------------------------------------------------------------------
(* Bounds *)

MaxInfLen == 5      \* longest inferences string of a filter event
MaxObjLen == 3      \* longest stored object, in bytes

----------------------------------------------------------------------------
(* Python values *)

Str(s)   == [type |-> "str",   val |-> s]
Bytes(s) == [type |-> "bytes", val |-> s]
List(s)  == [type |-> "list",  val |-> s]
Dict(s)  == [type |-> "dict",  val |-> s]
None     == [type |-> "null",  val |-> <<>>]

Item(k, v) == [key |-> k, value |-> v]

K_inferences == <<"i","n","f","e","r","e","n","c","e","s">>
K_s3_key     == <<"s","3","_","k","e","y">>
K_s3_bucket  == <<"s","3","_","b","u","c","k","e","t">>
K_image_data == <<"i","m","a","g","e","_","d","a","t","a">>

\* k in d
HasKey(d, k) == \E i \in 1..Len(d.val) : d.val[i].key = k

\* d[k], for k in d
Get(d, k) == d.val[CHOOSE i \in 1..Len(d.val) : d.val[i].key = k].value

SeqsUpTo(S, n) == UNION {[1..m -> S] : m \in 0..n}

----------------------------------------------------------------------------
(* Handler results *)

NoOutcome == [kind |-> "none", statusCode |-> 0, body |-> None,
              exc |-> "", arg |-> "", line |-> 0]

\* return {'statusCode': code, 'body': body}
Return(code, body) == [kind |-> "return", statusCode |-> code, body |-> body,
                       exc |-> "", arg |-> "", line |-> 0]

\* an exception of class exc leaving the handler from source line `line`
Raise(exc, arg, line) == [kind |-> "raise", statusCode |-> 0, body |-> None,
                          exc |-> exc, arg |-> arg, line |-> line]

----------------------------------------------------------------------------
(* str.split(sep) for a one-character separator *)

RECURSIVE SplitOn(_, _)
SplitOn(s, sep) ==
    IF s = <<>> THEN << <<>> >>
    ELSE LET rest == SplitOn(Tail(s), sep) IN
         IF Head(s) = sep
         THEN << <<>> >> \o rest
         ELSE << <<Head(s)>> \o Head(rest) >> \o Tail(rest)

----------------------------------------------------------------------------
(* float(s) on strings of decimal digits, '.' and other characters.        *)
(* A value is [num, scale], standing for num / 10^scale: the decimal the   *)
(* text denotes.  Comparing decimals agrees with comparing the doubles     *)
(* float() returns for texts of fewer than 16 digits, which MaxInfLen      *)
(* keeps them to.  Signs, exponents, blanks, "inf" and "nan", which        *)
(* float() also reads, need characters that InfAlphabet leaves out.        *)

DigitChars == <<"0","1","2","3","4","5","6","7","8","9">>

IsDigit(c) == \E i \in 1..10 : DigitChars[i] = c

DigitVal(c) == (CHOOSE i \in 1..10 : DigitChars[i] = c) - 1

IsDot(c) == c = "."

CountDots(s) == Cardinality({i \in 1..Len(s) : IsDot(s[i])})

CountDigits(s) == Cardinality({i \in 1..Len(s) : IsDigit(s[i])})

\* float(s) returns a value (otherwise it raises ValueError)
FloatOK(s) ==
    /\ \A i \in 1..Len(s) : IsDigit(s[i]) \/ IsDot(s[i])
    /\ CountDots(s) <= 1
    /\ CountDigits(s) >= 1

RECURSIVE Pow10(_)
Pow10(n) == IF n = 0 THEN 1 ELSE 10 * Pow10(n - 1)

\* the digits of s read as one integer, most significant first
RECURSIVE DigitsNum(_, _)
DigitsNum(s, acc) ==
    IF s = <<>> THEN acc
    ELSE IF IsDigit(Head(s)) THEN DigitsNum(Tail(s), 10 * acc + DigitVal(Head(s)))
    ELSE DigitsNum(Tail(s), acc)

\* number of digits after the '.', 0 without one
FracDigits(s) ==
    IF CountDots(s) = 0 THEN 0
    ELSE Len(s) - (CHOOSE i \in 1..Len(s) : IsDot(s[i]))

Float(s) == [num |-> DigitsNum(s, 0), scale |-> FracDigits(s)]

\* a >= b
FloatGE(a, b) == a.num * Pow10(b.scale) >= b.num * Pow10(a.scale)

\* THRESHOLD = .70
THRESHOLD == Float(<<".", "7", "0">>)

----------------------------------------------------------------------------
(* json.dumps with the default separators, on the values above *)

RECURSIVE JsonSerializable(_)
JsonSerializable(v) ==
    CASE v.type = "str"   -> TRUE
      [] v.type = "null"  -> TRUE
      [] v.type = "bytes" -> FALSE
      [] v.type = "list"  -> \A i \in 1..Len(v.val) : JsonSerializable(v.val[i])
      [] v.type = "dict"  -> \A i \in 1..Len(v.val) : JsonSerializable(v.val[i].value)

JsonString(s) == <<"\"">> \o s \o <<"\"">>

RECURSIVE JsonDumps(_)
RECURSIVE JsonItems(_)
RECURSIVE JsonElems(_)

JsonItems(items) ==
    IF items = <<>> THEN <<>>
    ELSE JsonString(Head(items).key) \o <<":", " ">> \o JsonDumps(Head(items).value)
         \o (IF Tail(items) = <<>> THEN <<>> ELSE <<",", " ">> \o JsonItems(Tail(items)))

JsonElems(elems) ==
    IF elems = <<>> THEN <<>>
    ELSE JsonDumps(Head(elems))
         \o (IF Tail(elems) = <<>> THEN <<>> ELSE <<",", " ">> \o JsonElems(Tail(elems)))

JsonDumps(v) ==
    CASE v.type = "str"  -> JsonString(v.val)
      [] v.type = "null" -> <<"n", "u", "l", "l">>
      [] v.type = "list" -> <<"[">> \o JsonElems(v.val) \o <<"]">>
      [] v.type = "dict" -> <<"{">> \o JsonItems(v.val) \o <<"}">>

----------------------------------------------------------------------------
(* The threshold filter, lambda_handler of lines 116-134 *)

\* Comprehension with the comparison > in place of >=
RECURSIVE ComprehensionStrict(_)
ComprehensionStrict(entries) ==
    IF entries = <<>> THEN [exc |-> "", vals |-> <<>>]
    ELSE LET parts == SplitOn(Head(entries), ":") IN
         IF Len(parts) < 2 THEN [exc |-> "IndexError", vals |-> <<>>]
         ELSE IF ~FloatOK(parts[2]) THEN [exc |-> "ValueError", vals |-> <<>>]
         ELSE LET rest == ComprehensionStrict(Tail(entries)) IN
              IF rest.exc # "" THEN rest
              ELSE [exc |-> "", vals |-> <<~FloatGE(THRESHOLD, Float(parts[2]))>> \o rest.vals]

\* Comprehension as a generator consumed by any(): evaluation stops at the
\* first entry that meets the threshold
RECURSIVE ComprehensionLazy(_)
ComprehensionLazy(entries) ==
    IF entries = <<>> THEN [exc |-> "", vals |-> <<>>]
    ELSE LET parts == SplitOn(Head(entries), ":") IN
         IF Len(parts) < 2 THEN [exc |-> "IndexError", vals |-> <<>>]
         ELSE IF ~FloatOK(parts[2]) THEN [exc |-> "ValueError", vals |-> <<>>]
         ELSE IF FloatGE(Float(parts[2]), THRESHOLD) THEN [exc |-> "", vals |-> <<TRUE>>]
         ELSE LET rest == ComprehensionLazy(Tail(entries)) IN
              IF rest.exc # "" THEN rest
              ELSE [exc |-> "", vals |-> <<FALSE>> \o rest.vals]

\* [float(x.split(":")[1]) >= THRESHOLD for x in entries], evaluated left to
\* right: the first entry that cannot be parsed raises, and the list is lost
RECURSIVE Comprehension(_)
Comprehension(entries) ==
    IF entries = <<>> THEN [exc |-> "", vals |-> <<>>]
    ELSE LET parts == SplitOn(Head(entries), ":") IN
         IF Len(parts) < 2 THEN [exc |-> "IndexError", vals |-> <<>>]
         ELSE IF ~FloatOK(parts[2]) THEN [exc |-> "ValueError", vals |-> <<>>]
         ELSE LET rest == Comprehension(Tail(entries)) IN
              IF rest.exc # "" THEN rest
              ELSE [exc |-> "", vals |-> <<FloatGE(Float(parts[2]), THRESHOLD)>> \o rest.vals]

\* any(vals)
AnyTrue(vals) == \E i \in 1..Len(vals) : vals[i]

\* FilterResponse encoding the inferences alone
FilterResponseInferences(ev) ==
    Return(200, Str(JsonDumps(Dict(<<Item(K_inferences, Get(ev, K_inferences))>>))))

\* return {'statusCode': 200, 'body': json.dumps(event)}
FilterResponse(ev) == Return(200, Str(JsonDumps(ev)))

\* the handler on event ev: what it returns or raises, and ev afterwards
FilterHandler(ev) ==
    IF ~HasKey(ev, K_inferences)
    THEN [outcome |-> Raise("KeyError", "inferences", 119), event |-> ev]
    ELSE LET inferences == Get(ev, K_inferences) IN
         IF inferences.type # "str"
         THEN [outcome |-> Raise("AttributeError", "split", 122), event |-> ev]
         ELSE LET flags == Comprehension(SplitOn(inferences.val, ",")) IN
              IF flags.exc # ""
              THEN [outcome |-> Raise(flags.exc, "", 122), event |-> ev]
              ELSE LET meets_threshold == AnyTrue(flags.vals) IN
                   IF ~meets_threshold
                   THEN \* raise("...") raises a str, which is no exception
                        [outcome |-> Raise("TypeError",
                                           "exceptions must derive from BaseException", 129),
                         event |-> ev]
                   ELSE IF ~JsonSerializable(ev)
                   THEN [outcome |-> Raise("TypeError", "not JSON serializable", 133),
                         event |-> ev]
                   ELSE [outcome |-> FilterResponse(ev), event |-> ev]

----------------------------------------------------------------------------
(* Events a caller can send to the filter (decoded JSON) *)

InfAlphabet == {"a", ":", ",", ".", "7", "0"}

\* the event shapes: inferences alone, after another field, or absent
FilterEvent(shape, v) ==
    CASE shape = "only"    -> Dict(<<Item(K_inferences, v)>>)
      [] shape = "after"   -> Dict(<<Item(K_s3_key, Str(<<"k">>)), Item(K_inferences, v)>>)
      [] shape = "missing" -> Dict(<<Item(K_s3_key, v)>>)

FilterShapes == {"only", "after"}

NoStore == [loc \in {} |-> <<>>]
NoFile == [type |-> "nofile", val |-> <<>>]

FilterInit ==
    /\ store = NoStore
    /\ tmpFile = NoFile
    /\ pc = "idle"
    /\ request = None
    /\ event = None
    /\ outcome = NoOutcome

FilterInvoke(ev) ==
    /\ pc = "idle"
    /\ LET r == FilterHandler(ev) IN
        /\ request' = ev
        /\ event' = r.event
        /\ outcome' = r.outcome
    /\ pc' = "filtered"
    /\ UNCHANGED <<store, tmpFile>>

\* the execution environment is ready for the next request
NextRequest ==
    /\ pc # "idle"
    /\ pc' = "idle"
    /\ request' = None
    /\ event' = None
    /\ outcome' = NoOutcome
    /\ UNCHANGED <<store, tmpFile>>

\* a request arrives whose inferences field is a string
FilterString ==
    /\ pc = "idle"
    /\ \E shape \in FilterShapes, n \in 0..MaxInfLen :
          \E s \in [1..n -> InfAlphabet] : FilterInvoke(FilterEvent(shape, Str(s)))

\* a request arrives whose inferences field is no string
FilterOther ==
    /\ pc = "idle"
    /\ \E shape \in FilterShapes \cup {"missing"}, v \in {List(<<>>), None} :
          FilterInvoke(FilterEvent(shape, v))

FilterNext == FilterString \/ FilterOther \/ NextRequest

SpecFilter == FilterInit /\ [][FilterNext]_vars

----------------------------------------------------------------------------
(* base64.b64encode *)

B64Alphabet ==
    <<"A","B","C","D","E","F","G","H","I","J","K","L","M","N","O","P",
      "Q","R","S","T","U","V","W","X","Y","Z","a","b","c","d","e","f",
      "g","h","i","j","k","l","m","n","o","p","q","r","s","t","u","v",
      "w","x","y","z","0","1","2","3","4","5","6","7","8","9","+","/">>

B64Char(n) == B64Alphabet[n + 1]

\* B64Encode without the '=' padding of the last group
RECURSIVE B64EncodeNoPad(_)
B64EncodeNoPad(b) ==
    IF Len(b) = 0 THEN <<>>
    ELSE IF Len(b) = 1
    THEN <<B64Char(b[1] \div 4), B64Char((b[1] % 4) * 16)>>
    ELSE IF Len(b) = 2
    THEN <<B64Char(b[1] \div 4), B64Char((b[1] % 4) * 16 + b[2] \div 16),
           B64Char((b[2] % 16) * 4)>>
    ELSE <<B64Char(b[1] \div 4), B64Char((b[1] % 4) * 16 + b[2] \div 16),
           B64Char((b[2] % 16) * 4 + b[3] \div 64), B64Char(b[3] % 64)>>
         \o B64EncodeNoPad(SubSeq(b, 4, Len(b)))

\* three bytes become four characters; a last group of one or two bytes is
\* padded with '='
RECURSIVE B64Encode(_)
B64Encode(b) ==
    IF Len(b) = 0 THEN <<>>
    ELSE IF Len(b) = 1
    THEN <<B64Char(b[1] \div 4), B64Char((b[1] % 4) * 16), "=", "=">>
    ELSE IF Len(b) = 2
    THEN <<B64Char(b[1] \div 4), B64Char((b[1] % 4) * 16 + b[2] \div 16),
           B64Char((b[2] % 16) * 4), "=">>
    ELSE <<B64Char(b[1] \div 4), B64Char((b[1] % 4) * 16 + b[2] \div 16),
           B64Char((b[2] % 16) * 4 + b[3] \div 64), B64Char(b[3] % 64)>>
         \o B64Encode(SubSeq(b, 4, Len(b)))

----------------------------------------------------------------------------
(* The object store and the scratch file *)

StoreBuckets == {<<"b">>}               \* the buckets that exist
BucketNames  == {<<"b">>, <<"c">>}      \* the bucket names a caller may send
KeyNames     == {<<"k">>, <<"j">>}      \* the keys
ByteValues   == {0, 255}

Objects == SeqsUpTo(ByteValues, MaxObjLen)

NoObject == [type |-> "noobject", val |-> <<>>]
File(b)  == [type |-> "file", val |-> b]
Object(b) == [type |-> "object", val |-> b]

Locations == StoreBuckets \X KeyNames

Fetchable(st, bucket, key) ==
    /\ bucket.type = "str" /\ key.type = "str"
    /\ <<bucket.val, key.val>> \in DOMAIN st
    /\ st[<<bucket.val, key.val>>] # NoObject

\* Download that reports no error and leaves the file as it was when the
\* object cannot be fetched
DownloadSilent(st, file, bucket, key) ==
    IF Fetchable(st, bucket, key)
    THEN [exc |-> "", file |-> File(st[<<bucket.val, key.val>>].val)]
    ELSE [exc |-> "", file |-> file]

\* Download that keeps a scratch file that is already there
DownloadCached(st, file, bucket, key) ==
    IF file.type = "file" THEN [exc |-> "", file |-> file]
    ELSE IF Fetchable(st, bucket, key)
    THEN [exc |-> "", file |-> File(st[<<bucket.val, key.val>>].val)]
    ELSE [exc |-> "ClientError", file |-> file]

\* s3.download_file(bucket, key, "/tmp/image.png"): the file becomes the
\* object, or the call raises and the file is as it was
Download(st, file, bucket, key) ==
    IF Fetchable(st, bucket, key)
    THEN [exc |-> "", file |-> File(st[<<bucket.val, key.val>>].val)]
    ELSE [exc |-> "ClientError", file |-> file]

----------------------------------------------------------------------------
(* serializeImageData, lambda_handler of lines 38-62, and the classifier,  *)
(* lambda_handler of lines 80-104, which is the same code                  *)

\* SerializeResponse with the two storage fields exchanged
SerializeResponseSwapped(image_data, bucket, key) ==
    Return(200, Dict(<<Item(K_image_data, image_data),
                       Item(K_s3_bucket, key),
                       Item(K_s3_key, bucket),
                       Item(K_inferences, List(<<>>))>>))

\* return {'statusCode': 200, 'body': {...}}
SerializeResponse(image_data, bucket, key) ==
    Return(200, Dict(<<Item(K_image_data, image_data),
                       Item(K_s3_bucket, bucket),
                       Item(K_s3_key, key),
                       Item(K_inferences, List(<<>>))>>))

\* the handler on event ev with the store st and the scratch file `file`:
\* what it returns or raises, ev afterwards, the scratch file afterwards.
\* keyLine is the line of key = event["s3_key"] in the copy that runs.
FetchAndEncode(ev, st, file, keyLine) ==
    IF ev.type # "dict"
    THEN [outcome |-> Raise("TypeError", "", keyLine), event |-> ev, file |-> file]
    ELSE IF ~HasKey(ev, K_s3_key)
    THEN [outcome |-> Raise("KeyError", "s3_key", keyLine), event |-> ev, file |-> file]
    ELSE IF ~HasKey(ev, K_s3_bucket)
    THEN [outcome |-> Raise("KeyError", "s3_bucket", keyLine + 1), event |-> ev, file |-> file]
    ELSE LET key == Get(ev, K_s3_key)
             bucket == Get(ev, K_s3_bucket)
             got == Download(st, file, bucket, key)
         IN  IF got.exc # ""
             THEN [outcome |-> Raise(got.exc, "", keyLine + 4), event |-> ev, file |-> got.file]
             ELSE IF got.file.type # "file"
             THEN [outcome |-> Raise("FileNotFoundError", "/tmp/image.png", keyLine + 7),
                   event |-> ev, file |-> got.file]
             ELSE LET image_data == Bytes(B64Encode(got.file.val)) IN
                  [outcome |-> SerializeResponse(image_data, bucket, key),
                   event |-> ev, file |-> got.file]

SerializeHandler(ev, st, file) == FetchAndEncode(ev, st, file, 42)

ClassifierHandler(ev, st, file) == FetchAndEncode(ev, st, file, 84)

----------------------------------------------------------------------------
(* The workflow: requests to serializeImageData, each result body handed   *)
(* to the classifier and its result body to the filter, in one execution   *)
(* environment, beside other writers of the object store                   *)

\* zero or one of the names
Optional(names) == {<<>>} \cup {<<n>> : n \in names}

\* the test events: image_data, then the storage fields that are present
SerializeEvent(bucket, key) ==
    Dict(<<Item(K_image_data, Str(<<>>))>>
         \o (IF bucket = <<>> THEN <<>> ELSE <<Item(K_s3_bucket, Str(bucket[1]))>>)
         \o (IF key = <<>> THEN <<>> ELSE <<Item(K_s3_key, Str(key[1]))>>))

Init ==
    /\ store = [loc \in Locations |-> NoObject]
    /\ tmpFile = NoFile
    /\ pc = "idle"
    /\ request = None
    /\ event = None
    /\ outcome = NoOutcome

\* another client of the store writes an object.  The handlers read the
\* store once, at download_file, so a write during an invocation is a write
\* before or after it: the store changes between invocations.
PutObject(loc, obj) ==
    /\ pc = "idle"
    /\ store[loc] # Object(obj)
    /\ store' = [store EXCEPT ![loc] = Object(obj)]
    /\ UNCHANGED <<tmpFile, pc, request, event, outcome>>

DeleteObject(loc) ==
    /\ pc = "idle"
    /\ store[loc] # NoObject
    /\ store' = [store EXCEPT ![loc] = NoObject]
    /\ UNCHANGED <<tmpFile, pc, request, event, outcome>>

SerializeInvoke(ev) ==
    /\ pc = "idle"
    /\ LET r == SerializeHandler(ev, store, tmpFile) IN
        /\ request' = ev
        /\ event' = r.event
        /\ outcome' = r.outcome
        /\ tmpFile' = r.file
    /\ pc' = "serialized"
    /\ UNCHANGED store

\* the classifier receives the body serializeImageData returned ($.body),
\* as the handler returned it
ClassifierInvoke ==
    /\ pc = "serialized"
    /\ outcome.kind = "return"
    /\ LET r == ClassifierHandler(outcome.body, store, tmpFile) IN
        /\ request' = outcome.body
        /\ event' = r.event
        /\ outcome' = r.outcome
        /\ tmpFile' = r.file
    /\ pc' = "classified"
    /\ UNCHANGED store

\* the filter receives the body the classifier returned
ChainFilterInvoke ==
    /\ pc = "classified"
    /\ outcome.kind = "return"
    /\ LET r == FilterHandler(outcome.body) IN
        /\ request' = outcome.body
        /\ event' = r.event
        /\ outcome' = r.outcome
    /\ pc' = "filtered"
    /\ UNCHANGED <<store, tmpFile>>

Next ==
    \/ \E loc \in Locations, obj \in Objects : PutObject(loc, obj)
    \/ \E loc \in Locations : DeleteObject(loc)
    \/ \E bucket \in Optional(BucketNames), key \in Optional(KeyNames) :
          SerializeInvoke(SerializeEvent(bucket, key))
    \/ ClassifierInvoke
    \/ ChainFilterInvoke
    \/ NextRequest

Spec == Init /\ [][Next]_vars

----------------------------------------------------------------------------
(* json.loads, the inverse the caller applies to a returned body *)

JsonFail == [ok |-> FALSE, val |-> None, next |-> 0]

\* s[i..] starts with the characters of w
StartsWith(s, i, w) ==
    /\ i + Len(w) - 1 <= Len(s)
    /\ \A j \in 1..Len(w) : s[i + j - 1] = w[j]

RECURSIVE JsonParse(_, _)
RECURSIVE JsonParseItems(_, _, _)
RECURSIVE JsonParseElems(_, _, _)

\* the items of an object from position i on, after the items acc
JsonParseItems(s, i, acc) ==
    LET k == JsonParse(s, i) IN
    IF ~k.ok \/ k.val.type # "str" \/ ~StartsWith(s, k.next, <<":", " ">>) THEN JsonFail
    ELSE LET v == JsonParse(s, k.next + 2)
             items == acc \o <<Item(k.val.val, v.val)>>
         IN  IF ~v.ok THEN JsonFail
             ELSE IF StartsWith(s, v.next, <<"}">>)
                  THEN [ok |-> TRUE, val |-> Dict(items), next |-> v.next + 1]
             ELSE IF StartsWith(s, v.next, <<",", " ">>)
                  THEN JsonParseItems(s, v.next + 2, items)
             ELSE JsonFail

\* the elements of an array from position i on, after the elements acc
JsonParseElems(s, i, acc) ==
    LET v == JsonParse(s, i)
        elems == acc \o <<v.val>>
    IN  IF ~v.ok THEN JsonFail
        ELSE IF StartsWith(s, v.next, <<"]">>)
             THEN [ok |-> TRUE, val |-> List(elems), next |-> v.next + 1]
        ELSE IF StartsWith(s, v.next, <<",", " ">>)
             THEN JsonParseElems(s, v.next + 2, elems)
        ELSE JsonFail

\* the value that starts at position i, and the position after it
JsonParse(s, i) ==
    IF i > Len(s) THEN JsonFail
    ELSE IF s[i] = "\""
    THEN IF \E j \in (i + 1)..Len(s) : s[j] = "\""
         THEN LET j == CHOOSE j \in (i + 1)..Len(s) :
                          /\ s[j] = "\""
                          /\ \A m \in (i + 1)..(j - 1) : s[m] # "\""
              IN  [ok |-> TRUE, val |-> Str(SubSeq(s, i + 1, j - 1)), next |-> j + 1]
         ELSE JsonFail
    ELSE IF StartsWith(s, i, <<"n", "u", "l", "l">>)
    THEN [ok |-> TRUE, val |-> None, next |-> i + 4]
    ELSE IF StartsWith(s, i, <<"[", "]">>)
    THEN [ok |-> TRUE, val |-> List(<<>>), next |-> i + 2]
    ELSE IF s[i] = "["
    THEN JsonParseElems(s, i + 1, <<>>)
    ELSE IF StartsWith(s, i, <<"{", "}">>)
    THEN [ok |-> TRUE, val |-> Dict(<<>>), next |-> i + 2]
    ELSE IF s[i] = "{"
    THEN JsonParseItems(s, i + 1, <<>>)
    ELSE JsonFail

\* json.loads(s); a text that is no JSON document gives no value
JsonLoads(s) ==
    LET r == JsonParse(s, 1) IN
    IF r.ok /\ r.next = Len(s) + 1 THEN r.val ELSE [type |-> "invalid", val |-> <<>>]

----------------------------------------------------------------------------
(* Properties of the threshold filter *)

\* the entries of the inferences string of ev
Entries(ev) == SplitOn(Get(ev, K_inferences).val, ",")

HasInferenceString(ev) ==
    /\ ev.type = "dict"
    /\ HasKey(ev, K_inferences)
    /\ Get(ev, K_inferences).type = "str"

\* entry x reads label:confidence with a numeric confidence
WellFormed(x) ==
    LET parts == SplitOn(x, ":") IN Len(parts) >= 2 /\ FloatOK(parts[2])

\* the confidence of a well-formed entry is at least 0.70
MeetsThreshold(x) ==
    LET c == Float(SplitOn(x, ":")[2]) IN c.num * 100 >= 70 * Pow10(c.scale)

\* The confidence values the handler parsed out of ev: one per entry when
\* every entry is well-formed, none when the parse was abandoned
ParsedEntries(ev) ==
    IF HasInferenceString(ev) /\ \A i \in 1..Len(Entries(ev)) : WellFormed(Entries(ev)[i])
    THEN Entries(ev)
    ELSE <<>>

SomeParsedMeets(ev) ==
    \E i \in 1..Len(ParsedEntries(ev)) : MeetsThreshold(ParsedEntries(ev)[i])

Succeeded == outcome.kind = "return" /\ outcome.statusCode = 200

ThresholdNotMet(ev) ==
    /\ ParsedEntries(ev) # <<>>
    /\ ~SomeParsedMeets(ev)

\* C5: when the threshold is not met the handler ends with an error that
\* carries THRESHOLD_CONFIDENCE_NOT_MET, and returns no response.
C5_ErrorCarriesIdentifier ==
    (pc = "filtered" /\ ThresholdNotMet(request)) =>
        /\ outcome.kind = "raise"
        /\ outcome.arg = "THRESHOLD_CONFIDENCE_NOT_MET"

\* C6: when the threshold is met the response has statusCode 200, its body
\* decodes to exactly the event that was sent, and the event object is as
\* it was sent.
C6_PassesEventUnchanged ==
    (pc = "filtered" /\ SomeParsedMeets(request)) =>
        /\ Succeeded
        /\ outcome.body.type = "str"
        /\ JsonLoads(outcome.body.val) = request
        /\ event = request

\* an event with a second field was passed back
C6_Witness ==
    /\ pc = "filtered"
    /\ SomeParsedMeets(request)
    /\ Succeeded
    /\ Len(request.val) = 2

SomeMalformed(ev) ==
    /\ HasInferenceString(ev)
    /\ \E i \in 1..Len(Entries(ev)) : ~WellFormed(Entries(ev)[i])

\* C10: if any entry of inferences is malformed the handler aborts with a
\* parse error raised at the parse, whatever the other entries are.
C10_MalformedEntryAborts ==
    (pc = "filtered" /\ SomeMalformed(request)) =>
        /\ outcome.kind = "raise"
        /\ outcome.exc \in {"IndexError", "ValueError"}
        /\ outcome.line = 122

\* an entry that meets the threshold came before a malformed one, and the
\* handler aborted
C10_Witness ==
    /\ pc = "filtered"
    /\ HasInferenceString(request)
    /\ \E i, j \in 1..Len(Entries(request)) :
          /\ i < j
          /\ WellFormed(Entries(request)[i])
          /\ MeetsThreshold(Entries(request)[i])
          /\ ~WellFormed(Entries(request)[j])
    /\ outcome.kind = "raise"

----------------------------------------------------------------------------
(* base64.b64decode, strict: the text must be the canonical encoding *)

B64Index(ch) ==
    IF \E i \in 1..64 : B64Alphabet[i] = ch
    THEN (CHOOSE i \in 1..64 : B64Alphabet[i] = ch) - 1
    ELSE -1

B64Fail == [ok |-> FALSE, val |-> <<>>]

RECURSIVE B64Decode(_)
B64Decode(c) ==
    IF c = <<>> THEN [ok |-> TRUE, val |-> <<>>]
    ELSE IF Len(c) < 4 THEN B64Fail
    ELSE LET n1 == B64Index(c[1])
             n2 == B64Index(c[2])
             n3 == B64Index(c[3])
             n4 == B64Index(c[4])
         IN
         IF Len(c) = 4 /\ c[3] = "=" /\ c[4] = "="
         THEN IF n1 >= 0 /\ n2 >= 0 /\ n2 % 16 = 0
              THEN [ok |-> TRUE, val |-> <<n1 * 4 + n2 \div 16>>]
              ELSE B64Fail
         ELSE IF Len(c) = 4 /\ c[4] = "="
         THEN IF n1 >= 0 /\ n2 >= 0 /\ n3 >= 0 /\ n3 % 4 = 0
              THEN [ok |-> TRUE,
                    val |-> <<n1 * 4 + n2 \div 16, (n2 % 16) * 16 + n3 \div 4>>]
              ELSE B64Fail
         ELSE IF n1 >= 0 /\ n2 >= 0 /\ n3 >= 0 /\ n4 >= 0
         THEN LET rest == B64Decode(SubSeq(c, 5, Len(c))) IN
              IF rest.ok
              THEN [ok |-> TRUE,
                    val |-> <<n1 * 4 + n2 \div 16, (n2 % 16) * 16 + n3 \div 4,
                              (n3 % 4) * 64 + n4>> \o rest.val]
              ELSE B64Fail
         ELSE B64Fail

----------------------------------------------------------------------------
(* Properties of serializeImageData *)

Serialized == pc = "serialized"

\* the request names a storage location: both fields are present
NamesLocation(ev) ==
    /\ ev.type = "dict"
    /\ HasKey(ev, K_s3_key)
    /\ HasKey(ev, K_s3_bucket)

\* the object the request names is in the store
ObjectStored(ev) ==
    /\ NamesLocation(ev)
    /\ <<Get(ev, K_s3_bucket).val, Get(ev, K_s3_key).val>> \in Locations
    /\ store[<<Get(ev, K_s3_bucket).val, Get(ev, K_s3_key).val>>].type = "object"

StoredObject(ev) == store[<<Get(ev, K_s3_bucket).val, Get(ev, K_s3_key).val>>].val

\* C2: in every response of serializeImageData, s3_key and s3_bucket of the
\* body are the s3_key and s3_bucket of the input event.
C2_KeyAndBucketPreserved ==
    (Serialized /\ outcome.kind = "return") =>
        /\ NamesLocation(request)
        /\ Get(outcome.body, K_s3_key) = Get(request, K_s3_key)
        /\ Get(outcome.body, K_s3_bucket) = Get(request, K_s3_bucket)

\* a response to a request whose key and bucket differ
C2_Witness ==
    /\ Serialized
    /\ outcome.kind = "return"
    /\ Get(request, K_s3_key) # Get(request, K_s3_bucket)

\* C7: for an object stored under (s3_bucket, s3_key) the response has
\* statusCode 200, image_data is the base64 text that decodes to exactly
\* the object's bytes, and inferences is the empty list.
C7_EncodesStoredObject ==
    (Serialized /\ ObjectStored(request)) =>
        /\ Succeeded
        /\ Get(outcome.body, K_image_data).type = "bytes"
        /\ B64Decode(Get(outcome.body, K_image_data).val)
               = [ok |-> TRUE, val |-> StoredObject(request)]
        /\ Get(outcome.body, K_inferences) = List(<<>>)

\* an object of two different bytes, whose encoding is padded, was returned
C7_Witness ==
    /\ Serialized
    /\ ObjectStored(request)
    /\ Succeeded
    /\ StoredObject(request) = <<0, 255>>

ScratchFiles == {NoFile} \cup {File(o) : o \in Objects}

C9_NoResponseWithoutFetch ==
    Serialized =>
        /\ ~ObjectStored(request) => outcome.kind = "raise"
        /\ outcome.kind = "return" =>
              /\ ObjectStored(request)
              /\ tmpFile = File(StoredObject(request))

\* a request without s3_bucket was aborted
C9_Witness ==
    /\ Serialized
    /\ outcome.kind = "raise"
    /\ outcome.exc = "KeyError"
    /\ HasKey(request, K_s3_key)

----------------------------------------------------------------------------
(* Properties of the classifier and of the chain *)

\* a prediction result holds at least one class confidence
IsPrediction(v) == v.type \in {"list", "str"} /\ v.val # <<>>

\* C3: the classifier returns a body whose inferences field holds the
\* prediction for the image, with image_data, s3_key and s3_bucket carried
\* over from its input.
C3_ClassifierPredicts ==
    (pc = "classified" /\ outcome.kind = "return") =>
        /\ IsPrediction(Get(outcome.body, K_inferences))
        /\ Get(outcome.body, K_image_data) = Get(request, K_image_data)
        /\ Get(outcome.body, K_s3_key) = Get(request, K_s3_key)
        /\ Get(outcome.body, K_s3_bucket) = Get(request, K_s3_bucket)

\* C4: a chain that reached the filter ends in one of the two threshold
\* outcomes: the success response, or the abort of line 129.
C4_ChainEndsInThresholdOutcome ==
    pc = "filtered" =>
        \/ Succeeded
        \/ outcome.kind = "raise" /\ outcome.line = 129

====
